---------------------------- MODULE Spec2Model ----------------------------
(***************************************************************************)
(* RSA key generation, Miller-Rabin primality testing and CRT decryption   *)
(* of src/miller_rabin.py and src/rsa.py.                                  *)
(*                                                                         *)
(* Four specifications share the variables below:                          *)
(*   SpecMR     one call of miller_rabin.test(n), statement by statement   *)
(*   SpecCRT    rsa.crt_decrypt against pow(c, d, n) on explicit keys      *)
(*   SpecSearch rsa.generate_primes, one witness round per step            *)
(*   SpecGen    rsa.generate_keys with the key store, and the demo of      *)
(*              rsa.py's __main__, one search-loop iteration per step      *)
(* The 1024-bit sampling range of rsa.py is scaled to SearchBits bits in  *)
(* SpecSearch and to KeyBits bits in SpecGen; KeyBits >= 9 keeps phi_n      *)
(* above the exponent e = 65337 of the code, as 1024 bits do.  A witness of *)
(* miller_rabin.test is any value random.randint can return.               *)
(***************************************************************************)
EXTENDS Integers, Sequences, FiniteSets, TLC

VARIABLES mr, crt, store, writes, gp, gk, main

vars == <<mr, crt, store, writes, gp, gk, main>>

(***************************************************************************)
(* Bounds of the model.                                                    *)
(***************************************************************************)
\* miller_rabin.test is called with n in -MaxNeg..MaxN
MaxN == 64
MaxNeg == 3
\* cap of the halving counter k of miller_rabin.test (reached only by n = 1)
MaxK == 8
\* crt_decrypt is exercised on all keys over primes <= MaxPrime
MaxPrime == 12
\* bit length of the candidates in SpecSearch and in SpecGen
SearchBits == 5
KeyBits == 9
\* plaintexts of the demo: 0..MaxPlain, and p, q, n - 1
MaxPlain == 2

(***************************************************************************)
(* Program constants.                                                      *)
(***************************************************************************)
\* rsa.py: for _ in range(7)
Rounds == 7
\* rsa.py: e = 65337
e == 65337

(***************************************************************************)
(* Python's integer primitives.                                            *)
(***************************************************************************)
\* (a * b) % m of Python's arbitrary-precision integers for 0 <= a, b < m and
\* m <= 2^20, computed in two 10-bit limbs of a so that no product exceeds 2^31
MulMod(a, b, m) ==
    IF m <= 46340 THEN (a * b) % m
    ELSE ((((a \div 1024) * b) % m) * 1024 + (a % 1024) * b) % m

RECURSIVE pow(_, _, _)
\* pow(b, x, m) for x >= 0, m >= 1
pow(b, x, m) ==
    IF x = 0 THEN 1 % m
    ELSE LET h == pow(b, x \div 2, m)
             s == MulMod(h, h, m)
         IN  IF x % 2 = 1 THEN MulMod(s, b % m, m) ELSE s

RECURSIVE gcd(_, _)
\* math.gcd(a, b) for a, b >= 0
gcd(a, b) == IF b = 0 THEN a ELSE gcd(b, a % b)

\* the value standing for a ValueError raised by pow(a, -1, m)
ValueError == -1

RECURSIVE EGcd(_, _)
\* extended Euclid: <<g, x, y>> with g = gcd(a, b) = a * x + b * y
EGcd(a, b) ==
    IF b = 0 THEN <<a, 1, 0>>
    ELSE LET r == EGcd(b, a % b)
         IN  <<r[1], r[3], r[2] - (a \div b) * r[3]>>

\* pow(a, -1, m): the inverse of a modulo m in [0, m), ValueError if none
inverse(a, m) ==
    LET r == EGcd(a % m, m)
    IN  IF r[1] # 1 THEN ValueError ELSE r[2] % m

(***************************************************************************)
(* miller_rabin.test                                                       *)
(***************************************************************************)
\* Verdict with the comparison of step 3 inverted
Verdict_inverted(n, k, q, a) ==
    IF pow(a, q, n) # 1 THEN "inconclusive"
    ELSE IF \E j \in 1..(k - 1) : pow(a, (2 ^ j) * q, n) = n - 1
         THEN "inconclusive"
         ELSE "composite"

\* steps 3-6 of test for the factorisation n - 1 = 2^k * q and the witness a
Verdict(n, k, q, a) ==
    IF pow(a, q, n) = 1 THEN "inconclusive"
    ELSE IF \E j \in 1..(k - 1) : pow(a, (2 ^ j) * q, n) = n - 1
         THEN "inconclusive"
         ELSE "composite"

RECURSIVE Halve(_, _)
\* step 1 of test: the loop "while q % 2 == 0" from k, q; <<k, q>> at its exit
Halve(k, q) == IF q % 2 = 0 THEN Halve(k + 1, q \div 2) ELSE <<k, q>>

\* the value test(n) returns when it draws the witness a (n = 3 draws none)
test(n, a) ==
    IF n = 3 THEN "inconclusive"
    ELSE LET kq == Halve(0, n - 1)
         IN  Verdict(n, kq[1], kq[2], a)

\* the frame of no call
NoCall == [pc |-> "none"]

\* the store when rsa_parameters.json does not exist; <<doc>> when it holds doc
NoFile == <<>>

\* SpecMR: test(n) is entered
TestCall ==
    /\ mr.pc = "call"
    /\ IF mr.n = 3
       THEN mr' = [mr EXCEPT !.pc = "returned", !.ret = "inconclusive"]
       ELSE mr' = [mr EXCEPT !.pc = "halve", !.k = 0, !.q = mr.n - 1]
    /\ UNCHANGED <<crt, store, writes, gp, gk, main>>

\* one iteration of "while q % 2 == 0"
TestHalve ==
    /\ mr.pc = "halve"
    /\ mr.q % 2 = 0
    /\ mr.k < MaxK
    /\ mr' = [mr EXCEPT !.k = mr.k + 1, !.q = mr.q \div 2]
    /\ UNCHANGED <<crt, store, writes, gp, gk, main>>

\* the loop exits; a = random.randint(2, n - 2), a ValueError on an empty range
TestDraw ==
    /\ mr.pc = "halve"
    /\ mr.q % 2 # 0
    /\ IF mr.n - 2 < 2
       THEN mr' = [mr EXCEPT !.pc = "ValueError"]
       ELSE \E a \in 2..(mr.n - 2) : mr' = [mr EXCEPT !.pc = "step3", !.a = a]
    /\ UNCHANGED <<crt, store, writes, gp, gk, main>>

\* step 3: if pow(a, q, n) == 1 return "inconclusive"
TestStep3 ==
    /\ mr.pc = "step3"
    /\ IF pow(mr.a, mr.q, mr.n) = 1
       THEN mr' = [mr EXCEPT !.pc = "returned", !.ret = "inconclusive"]
       ELSE mr' = [mr EXCEPT !.pc = "loop", !.j = 1]
    /\ UNCHANGED <<crt, store, writes, gp, gk, main>>

\* steps 4-5: one iteration of "for j in range(1, k)"
TestLoop ==
    /\ mr.pc = "loop"
    /\ mr.j < mr.k
    /\ IF pow(mr.a, (2 ^ mr.j) * mr.q, mr.n) = mr.n - 1
       THEN mr' = [mr EXCEPT !.pc = "returned", !.ret = "inconclusive"]
       ELSE mr' = [mr EXCEPT !.j = mr.j + 1]
    /\ UNCHANGED <<crt, store, writes, gp, gk, main>>

\* step 6: the for loop is exhausted, return "composite"
TestComposite ==
    /\ mr.pc = "loop"
    /\ mr.j >= mr.k
    /\ mr' = [mr EXCEPT !.pc = "returned", !.ret = "composite"]
    /\ UNCHANGED <<crt, store, writes, gp, gk, main>>

InitMR ==
    /\ mr \in {[pc |-> "call", n |-> x, k |-> 0, q |-> 0, a |-> 0, j |-> 0,
                ret |-> "none"] : x \in (0 - MaxNeg)..MaxN}
    /\ crt = NoCall
    /\ store = NoFile
    /\ writes = 0
    /\ gp = NoCall
    /\ gk = NoCall
    /\ main = NoCall

NextMR ==
    \/ TestCall
    \/ TestHalve
    \/ TestDraw
    \/ TestStep3
    \/ TestLoop
    \/ TestComposite

SpecMR == InitMR /\ [][NextMR]_vars

(***************************************************************************)
(* rsa.crt_decrypt and the two decryptions of rsa.py's __main__            *)
(***************************************************************************)
\* crt_decrypt with h taken as a truncated remainder (sign of the dividend)
crt_decrypt_truncated(c, d, p, q) ==
    LET dp == d % (p - 1)
        dq == d % (q - 1)
        q_inv == inverse(q, p)
        m1 == pow(c, dp, p)
        m2 == pow(c, dq, q)
        x == q_inv * (m1 - m2)
        h == IF x < 0 THEN 0 - ((0 - x) % p) ELSE x % p
    IN  IF q_inv = ValueError THEN ValueError ELSE m2 + h * q

\* crt_decrypt(c, d, p, q); ValueError when pow(q, -1, p) raises
crt_decrypt(c, d, p, q) ==
    LET dp == d % (p - 1)
        dq == d % (q - 1)
        q_inv == inverse(q, p)
        m1 == pow(c, dp, p)
        m2 == pow(c, dq, q)
        h == (q_inv * (m1 - m2)) % p
    IN  IF q_inv = ValueError THEN ValueError ELSE m2 + h * q

IsPrime(x) == x > 1 /\ \A y \in 2..(x - 1) : x % y # 0

\* phi_n taken as n itself
phi_n_is_n(p, q) == p * q

\* rsa.py line 60: phi_n = (p - 1) * (q - 1)
phi_n(p, q) == (p - 1) * (q - 1)

\* the keys over the primes p, q: 1 < e < phi, gcd(e, phi) = 1, and
\* d = e^-1 mod phi or that plus phi
KeysOver(p, q) ==
    UNION {{[p |-> p, q |-> q, e |-> x, d |-> inverse(x, phi_n(p, q)) + t * phi_n(p, q)]
              : t \in 0..1}
           : x \in {y \in 2..(phi_n(p, q) - 1) : gcd(y, phi_n(p, q)) = 1}}

\* the keys over two distinct primes <= MaxPrime
SmallKeys ==
    LET Primes == {x \in 2..MaxPrime : IsPrime(x)}
    IN  UNION {KeysOver(pq[1], pq[2]) : pq \in {z \in Primes \X Primes : z[1] # z[2]}}

\* the textbook key p = 61, q = 53, e = 17, d = 2753 (n = 3233), an input of
\* SpecCRT beside the keys over small primes
ToyKey == [p |-> 61, q |-> 53, e |-> 17, d |-> 2753]

\* rsa.py line 126: decrypted_m_crt = crt_decrypt(c, d, p, q)
CrtDecrypt ==
    /\ crt.pc = "crt"
    /\ LET m == crt_decrypt(crt.c, crt.d, crt.p, crt.q)
       IN  crt' = [crt EXCEPT !.pc = IF m = ValueError THEN "ValueError" ELSE "pow",
                              !.m_crt = m]
    /\ UNCHANGED <<mr, store, writes, gp, gk, main>>

\* rsa.py line 134: decrypted_m_pow = pow(c, d, n)
PowDecrypt ==
    /\ crt.pc = "pow"
    /\ crt' = [crt EXCEPT !.pc = "assert",
                          !.m_pow = pow(crt.c, crt.d, crt.n)]
    /\ UNCHANGED <<mr, store, writes, gp, gk, main>>

\* rsa.py line 140: assert decrypted_m_crt == decrypted_m_pow
AssertEqual ==
    /\ crt.pc = "assert"
    /\ crt' = [crt EXCEPT !.pc = IF crt.m_crt = crt.m_pow
                                 THEN "done" ELSE "AssertionError"]
    /\ UNCHANGED <<mr, store, writes, gp, gk, main>>

InitCRT ==
    /\ mr = NoCall
    /\ \E key \in SmallKeys \cup {ToyKey} :
         \E c \in 0..(key.p * key.q - 1) :
           crt = [pc |-> "crt", p |-> key.p, q |-> key.q, n |-> key.p * key.q,
                  e |-> key.e, d |-> key.d, c |-> c, m_crt |-> 0, m_pow |-> 0]
    /\ store = NoFile
    /\ writes = 0
    /\ gp = NoCall
    /\ gk = NoCall
    /\ main = NoCall

NextCRT ==
    \/ CrtDecrypt
    \/ PowDecrypt
    \/ AssertEqual

SpecCRT == InitCRT /\ [][NextCRT]_vars

(***************************************************************************)
(* The key store rsa_parameters.json                                       *)
(***************************************************************************)
RECURSIVE IntToDec(_)
\* json.dump of an integer x >= 0: its decimal digits
IntToDec(x) == IF x < 10 THEN <<x>> ELSE Append(IntToDec(x \div 10), x % 10)

RECURSIVE DecToInt(_)
\* json.load of a sequence of decimal digits
DecToInt(s) ==
    IF Len(s) = 0 THEN 0
    ELSE 10 * DecToInt(SubSeq(s, 1, Len(s) - 1)) + s[Len(s)]

\* json.dump(keys, f): the document written to the file
JsonDump(keys) ==
    [public |-> [e |-> IntToDec(keys.public.e), n |-> IntToDec(keys.public.n)],
     private |-> [d |-> IntToDec(keys.private.d), p |-> IntToDec(keys.private.p),
                  q |-> IntToDec(keys.private.q)]]

\* json.load(f): the dictionary read from the file
JsonLoad(doc) ==
    [public |-> [e |-> DecToInt(doc.public.e), n |-> DecToInt(doc.public.n)],
     private |-> [d |-> DecToInt(doc.private.d), p |-> DecToInt(doc.private.p),
                  q |-> DecToInt(doc.private.q)]]

\* os.path.exists(path)
Exists == store # NoFile

(***************************************************************************)
(* rsa.generate_primes                                                     *)
(***************************************************************************)
\* Python's None for p and q
None == 0

\* random.randint(2**(b-1) + 1, 2**b - 1), b = 1024 in the code
Candidates(b) == (2 ^ (b - 1) + 1)..(2 ^ b - 1)

\* the frame of generate_primes at its entry
PrimesCall ==
    [pc |-> "call", p |-> None, q |-> None, n |-> 0, results |-> <<>>,
     ret |-> <<None, None>>]

\* lines 24-28 without the test "n % 2 == 0": every candidate is tested
Sampled_noskip(f, n) == [f EXCEPT !.n = n, !.results = <<>>, !.pc = "rounds"]

\* lines 24-28: n is sampled; an even n is skipped, an odd n gets results = []
Sampled(f, n) ==
    IF n % 2 = 0
    THEN [f EXCEPT !.n = n, !.pc = "loop"]
    ELSE [f EXCEPT !.n = n, !.results = <<>>, !.pc = "rounds"]

\* lines 30-31: the verdict v of miller_rabin.test(n) is appended to results
Tested(f, v) == [f EXCEPT !.results = Append(f.results, v)]

\* lines 33-40 accepting a candidate as soon as one round was inconclusive
Decided_any(f) ==
    LET accept == \E i \in 1..Len(f.results) : f.results[i] = "inconclusive"
        p == IF accept /\ f.p = None THEN f.n ELSE f.p
        q == IF accept /\ f.p # None /\ f.q = None THEN f.n ELSE f.q
    IN  IF p # None /\ q # None
        THEN [f EXCEPT !.p = p, !.q = q, !.pc = "returned", !.ret = <<p, q>>]
        ELSE [f EXCEPT !.p = p, !.q = q, !.pc = "loop"]

\* lines 33-42: the candidate is accepted if "composite" is not in results, as
\* p if p is None, else as q; with both set the loop breaks and (p, q) returns
Decided(f) ==
    LET accept == \A i \in 1..Len(f.results) : f.results[i] # "composite"
        p == IF accept /\ f.p = None THEN f.n ELSE f.p
        q == IF accept /\ f.p # None /\ f.q = None THEN f.n ELSE f.q
    IN  IF p # None /\ q # None
        THEN [f EXCEPT !.p = p, !.q = q, !.pc = "returned", !.ret = <<p, q>>]
        ELSE [f EXCEPT !.p = p, !.q = q, !.pc = "loop"]

\* lines 13-19: the stored p, q are returned if the file exists, else the
\* search starts with p = q = None
GP_Call ==
    /\ gp.pc = "call"
    /\ IF Exists
       THEN LET data == JsonLoad(store[1])
            IN  gp' = [gp EXCEPT !.pc = "returned",
                                 !.ret = <<data.private.p, data.private.q>>]
       ELSE gp' = [gp EXCEPT !.pc = "loop", !.p = None, !.q = None]
    /\ UNCHANGED <<mr, crt, store, writes, gk, main>>

\* SpecSearch, lines 21-28: the loop is entered and a candidate is sampled
GP_Sample ==
    /\ gp.pc = "loop"
    /\ gp.p = None \/ gp.q = None
    /\ \E n \in Candidates(SearchBits) : gp' = Sampled(gp, n)
    /\ UNCHANGED <<mr, crt, store, writes, gk, main>>

\* SpecSearch, lines 29-31: one round, miller_rabin.test(n) draws its witness a
GP_Round ==
    /\ gp.pc = "rounds"
    /\ Len(gp.results) < Rounds
    /\ \E a \in 2..(gp.n - 2) : gp' = Tested(gp, test(gp.n, a))
    /\ UNCHANGED <<mr, crt, store, writes, gk, main>>

\* SpecSearch, lines 33-42: after the rounds the candidate is accepted or not
GP_Decide ==
    /\ gp.pc = "rounds"
    /\ Len(gp.results) = Rounds
    /\ gp' = Decided(gp)
    /\ UNCHANGED <<mr, crt, store, writes, gk, main>>

InitSearch ==
    /\ mr = NoCall
    /\ crt = NoCall
    /\ store = NoFile
    /\ writes = 0
    /\ gp = PrimesCall
    /\ gk = NoCall
    /\ main = NoCall

NextSearch ==
    \/ GP_Call
    \/ GP_Sample
    \/ GP_Round
    \/ GP_Decide

SpecSearch == InitSearch /\ [][NextSearch]_vars

(***************************************************************************)
(* rsa.generate_keys and rsa.py's __main__ (SpecGen)                       *)
(***************************************************************************)
\* the values miller_rabin.test(n) can return, over its witnesses, for the odd
\* candidates of KeyBits bits
VerdictsOf ==
    [n \in {x \in Candidates(KeyBits) : x % 2 = 1}
       |-> {test(n, a) : a \in 2..(n - 2)}]

RECURSIVE TestedAll(_, _, _)
\* lines 29-31: the rounds i..Rounds with the verdicts vs[i], ..., vs[Rounds]
TestedAll(f, vs, i) ==
    IF i > Rounds THEN f ELSE TestedAll(Tested(f, vs[i]), vs, i + 1)

\* n and results are dead at the head of the loop (both are assigned before
\* they are read): the frame without them
AtLoopHead(f) == [f EXCEPT !.n = 0, !.results = <<>>]

\* SpecGen, lines 21-42: one iteration of the search loop, from the sampling
\* of n through its Rounds rounds to the decision
GP_Iteration ==
    /\ gp.pc = "loop"
    /\ gp.p = None \/ gp.q = None
    /\ \E n \in Candidates(KeyBits) :
         IF n % 2 = 0
         THEN gp' = AtLoopHead(Sampled(gp, n))
         ELSE \E vs \in [1..Rounds -> VerdictsOf[n]] :
                gp' = AtLoopHead(Decided(TestedAll(Sampled(gp, n), vs, 1)))
    /\ UNCHANGED <<mr, crt, store, writes, gk, main>>

\* no key pair
NoKeys ==
    [public |-> [e |-> 0, n |-> 0], private |-> [d |-> 0, p |-> 0, q |-> 0]]

\* generate_primes is called on its own after generate_keys has returned (its
\* call on its own before that is SpecSearch)
GP_Standalone ==
    /\ gk.pc = "returned"
    /\ gp.pc \in {"none", "returned"}
    /\ main.pc = "none"
    /\ gp' = PrimesCall
    /\ UNCHANGED <<mr, crt, store, writes, gk, main>>

\* generate_keys that never looks for a persisted key pair
GK_Call_nocache ==
    /\ gk.pc \in {"idle", "returned", "AssertionError"}
    /\ gp.pc \in {"none", "returned"}
    /\ main.pc \in {"none", "done", "AssertionError", "ValueError"}
    /\ gk' = [pc |-> "primes", line |-> 54, keys |-> NoKeys]
    /\ gp' = PrimesCall
    /\ crt' = NoCall
    /\ main' = NoCall
    /\ UNCHANGED <<mr, store, writes>>

\* lines 48-54: generate_keys is called (by a first or a later run of the
\* program); it returns the persisted key pair, or calls generate_primes
GK_Call ==
    /\ gk.pc \in {"idle", "returned", "AssertionError"}
    /\ gp.pc \in {"none", "returned"}
    /\ main.pc \in {"none", "done", "AssertionError", "ValueError"}
    /\ IF Exists
       THEN /\ gk' = [pc |-> "returned", line |-> 51, keys |-> JsonLoad(store[1])]
            /\ gp' = NoCall
       ELSE /\ gk' = [pc |-> "primes", line |-> 54, keys |-> NoKeys]
            /\ gp' = PrimesCall
    /\ crt' = NoCall
    /\ main' = NoCall
    /\ UNCHANGED <<mr, store, writes>>

\* lines 54-78: with the primes returned, n, phi_n, the assertion on e, d and
\* the key pair; the file is written if it does not exist
GK_Derive ==
    /\ gk.pc = "primes"
    /\ gp.pc = "returned"
    /\ LET p == gp.ret[1]
           q == gp.ret[2]
           n == p * q
           phi == phi_n(p, q)
           d == inverse(e, phi)
           keys == [public |-> [e |-> e, n |-> n],
                    private |-> [d |-> d, p |-> p, q |-> q]]
       IN  IF ~(1 < e /\ e < phi /\ gcd(e, phi) = 1)
           THEN /\ gk' = [pc |-> "AssertionError", line |-> 64, keys |-> NoKeys]
                /\ UNCHANGED <<store, writes>>
           ELSE IF d = ValueError
           THEN /\ gk' = [pc |-> "ValueError", line |-> 67, keys |-> NoKeys]
                /\ UNCHANGED <<store, writes>>
           ELSE /\ gk' = [pc |-> "returned", line |-> 78, keys |-> keys]
                /\ IF ~Exists
                   THEN store' = <<JsonDump(keys)>> /\ writes' = writes + 1
                   ELSE UNCHANGED <<store, writes>>
    /\ gp' = NoCall
    /\ UNCHANGED <<mr, crt, main>>

\* the plaintexts the demo is run on
Plaintexts(keys) ==
    {m \in (0..MaxPlain) \cup {keys.private.p, keys.private.q, keys.public.n - 1}
       : m < keys.public.n}

\* __main__ lines 111-124: c = pow(m, e, n) for the keys generate_keys returned
Encrypt ==
    /\ gk.pc = "returned"
    /\ gp.pc = "none"
    /\ main.pc = "none"
    /\ \E m \in Plaintexts(gk.keys) :
         /\ main' = [pc |-> "encrypted", m |-> m]
         /\ crt' = [pc |-> "crt", p |-> gk.keys.private.p, q |-> gk.keys.private.q,
                    n |-> gk.keys.public.n, e |-> gk.keys.public.e,
                    d |-> gk.keys.private.d,
                    c |-> pow(m, gk.keys.public.e, gk.keys.public.n),
                    m_crt |-> 0, m_pow |-> 0]
    /\ UNCHANGED <<mr, store, writes, gp, gk>>

\* the demo has ended: normally, or on the exception of its decryption
DemoEnds ==
    /\ main.pc = "encrypted"
    /\ crt.pc \in {"done", "AssertionError", "ValueError"}
    /\ main' = [main EXCEPT !.pc = crt.pc]
    /\ UNCHANGED <<mr, crt, store, writes, gp, gk>>

InitGen ==
    /\ mr = NoCall
    /\ crt = NoCall
    /\ store = NoFile
    /\ writes = 0
    /\ gp = NoCall
    /\ gk = [pc |-> "idle", line |-> 0, keys |-> NoKeys]
    /\ main = NoCall

NextGen ==
    \/ GK_Call
    \/ GP_Standalone
    \/ GP_Call
    \/ GP_Iteration
    \/ GK_Derive
    \/ Encrypt
    \/ CrtDecrypt
    \/ PowDecrypt
    \/ AssertEqual
    \/ DemoEnds

SpecGen == InitGen /\ [][NextGen]_vars

(***************************************************************************)
(* Claims on miller_rabin.test (SpecMR)                                    *)
(***************************************************************************)
\* C1: one round of test(n) on a prime n never returns "composite", whatever
\* witness it draws.
C1_PrimeNeverComposite ==
    (mr.pc = "returned" /\ IsPrime(mr.n)) => mr.ret = "inconclusive"

\* an invalid candidate: n < 4 other than n = 3
InvalidCandidate(x) == x < 4 /\ x # 3

\* the halving loop is at an iteration that leaves q even and unchanged, so
\* that its exit condition never becomes true
HalvingDiverges == mr.pc = "halve" /\ mr.q % 2 = 0 /\ mr.q \div 2 = mr.q

\* C7: test(n) on an invalid candidate neither returns a verdict nor enters a
\* loop that cannot terminate (it can only end in an error).
C7_InvalidCandidateFails ==
    (mr.pc # "none" /\ InvalidCandidate(mr.n))
        => (mr.pc # "returned" /\ ~HalvingDiverges)

\* the witnesses of n for which one round returns "inconclusive"
Liars(x) == {a \in 2..(x - 2) : test(x, a) = "inconclusive"}

\* C8: for a composite n >= 4, at most a quarter of the witnesses in
\* [2, n-2] make one round return "inconclusive".
C8_QuarterBound ==
    (mr.pc = "returned" /\ mr.n >= 4 /\ ~IsPrime(mr.n))
        => 4 * Cardinality(Liars(mr.n)) <= mr.n - 3

\* a round on a composite n has returned "inconclusive"
C8_Witness ==
    /\ mr.pc = "returned"
    /\ mr.n >= 4
    /\ ~IsPrime(mr.n)
    /\ mr.ret = "inconclusive"

\* the statement-by-statement run of test returns what the operator test gives
TestAgrees == mr.pc = "returned" => mr.ret = test(mr.n, mr.a)

(***************************************************************************)
(* Claims on crt_decrypt (SpecCRT)                                         *)
(***************************************************************************)
\* C2 as stated: for every key over distinct primes and every c in [0, n),
\* crt_decrypt(c, d, p, q) equals pow(c, d, n).
C2_CrtEqualsDirect ==
    crt.pc \in {"assert", "done", "AssertionError"} => crt.m_crt = crt.m_pow

\* C2 amended: for every key over distinct odd primes with d >= 1 and every c
\* in [0, n), crt_decrypt(c, d, p, q) returns and equals pow(c, d, n).
C2_CrtEqualsDirectOddPrimes ==
    (crt.pc \notin {"none", "crt"} /\ crt.p % 2 = 1 /\ crt.q % 2 = 1)
        => /\ crt.pc # "ValueError"
           /\ crt.pc \in {"assert", "done"} => crt.m_crt = crt.m_pow
           /\ crt.pc # "AssertionError"

\* the toy key decrypts c = 2790 to 65 on both paths, through a negative
\* m1 - m2 (65 mod 61 = 4 < 65 mod 53 = 12)
C2_Witness ==
    /\ crt.pc = "done"
    /\ crt.p = 61 /\ crt.q = 53 /\ crt.d = 2753 /\ crt.c = 2790
    /\ pow(crt.c, crt.d % 60, 61) < pow(crt.c, crt.d % 52, 53)
    /\ crt.m_crt = 65 /\ crt.m_pow = 65

(***************************************************************************)
(* Claims on generate_primes (SpecSearch)                                  *)
(***************************************************************************)
\* C4: the two primes of a freshly generated pair are distinct.
C4_DistinctPrimes ==
    (gp.pc = "returned" /\ ~Exists) => gp.ret[1] # gp.ret[2]

\* x is an odd integer of the sampling range of b bits
OddInRange(x, b) ==
    /\ x % 2 = 1
    /\ 2 ^ (b - 1) + 1 <= x
    /\ x <= 2 ^ b - 1

\* C6: every value the search accepts as p or q, and returns, is an odd
\* integer in [2^(b-1)+1, 2^b - 1].
C6_OddInRange ==
    /\ (gp.pc # "none" /\ gp.p # None) => OddInRange(gp.p, SearchBits)
    /\ (gp.pc # "none" /\ gp.q # None) => OddInRange(gp.q, SearchBits)
    /\ gp.pc = "returned" => /\ OddInRange(gp.ret[1], SearchBits)
                             /\ OddInRange(gp.ret[2], SearchBits)

\* the search has returned a pair
C6_Witness ==
    /\ gp.pc = "returned"
    /\ gp.ret = <<gp.p, gp.q>>
    /\ gp.p # None /\ gp.q # None

\* no round of results returned "composite"
NoComposite(rs) == \A i \in 1..Len(rs) : rs[i] # "composite"

\* the step accepts the candidate n: it becomes p if p is None, else q
Accepts(n) ==
    IF gp.p = None
    THEN gp'.p = n /\ gp'.q = gp.q
    ELSE gp'.p = gp.p /\ gp'.q = n

\* C10: an even candidate is rejected without a call of the primality test; an
\* odd candidate gets exactly Rounds rounds of test on that candidate, each with
\* a witness drawn for it; it is accepted iff no round returned "composite",
\* else it is discarded and the loop samples again.
C10_SearchPolicy ==
    [][ /\ (gp.pc = "loop" /\ gp'.n % 2 = 0)
            => /\ gp'.pc = "loop"
               /\ gp'.results = gp.results
               /\ gp'.p = gp.p /\ gp'.q = gp.q
        /\ (gp.pc = "loop" /\ gp'.n % 2 = 1)
            => gp'.pc = "rounds" /\ gp'.results = <<>>
        /\ (gp.pc = "rounds" /\ gp'.pc = "rounds")
            => /\ Len(gp.results) < Rounds
               /\ gp'.n = gp.n /\ gp.n % 2 = 1
               /\ \E a \in 2..(gp.n - 2) :
                    gp'.results = Append(gp.results, test(gp.n, a))
               /\ gp'.p = gp.p /\ gp'.q = gp.q
        /\ (gp.pc = "rounds" /\ gp'.pc # "rounds")
            => /\ Len(gp.results) = Rounds
               /\ IF NoComposite(gp.results)
                  THEN Accepts(gp.n)
                  ELSE gp'.p = gp.p /\ gp'.q = gp.q /\ gp'.pc = "loop"
        /\ (gp.pc # "call" /\ (gp'.p # gp.p \/ gp'.q # gp.q))
            => /\ gp.pc = "rounds"
               /\ Len(gp.results) = Rounds
               /\ NoComposite(gp.results)
      ]_vars

\* a candidate was accepted as p after its rounds, a later odd candidate was
\* discarded on a "composite" round, and an even candidate has just been skipped
C10_Witness ==
    /\ gp.pc = "loop"
    /\ gp.p # None /\ gp.q = None
    /\ gp.n % 2 = 0
    /\ Len(gp.results) = Rounds
    /\ ~NoComposite(gp.results)

(***************************************************************************)
(* Claims on generate_keys and the demo (SpecGen)                          *)
(***************************************************************************)
\* C3: for every key pair generate_keys produces and every plaintext m in
\* [0, n), pow(pow(m, e, n), d, n) = m.
C3_RoundTrip ==
    (main.pc = "encrypted" /\ crt.pc = "crt")
        => pow(crt.c, crt.d, crt.n) = main.m

\* C5: the key pair is written to the store at most once, generate_keys never
\* searches for primes while a persisted pair exists, and every call that
\* returns, returns exactly the persisted pair; so does generate_primes.
C5_PersistenceIdempotence ==
    /\ writes <= 1
    /\ Exists <=> writes = 1
    /\ gk.pc = "primes" => ~Exists
    /\ gk.pc = "returned" => (Exists /\ gk.keys = JsonLoad(store[1]))
    /\ (gp.pc = "returned" /\ Exists)
          => gp.ret = <<JsonLoad(store[1]).private.p, JsonLoad(store[1]).private.q>>

\* a later call of generate_keys has returned the pair an earlier one persisted
C5_Witness ==
    /\ gk.pc = "returned"
    /\ gk.line = 51
    /\ writes = 1
    /\ gk.keys = JsonLoad(store[1])
    /\ gk.keys.public.n > 0

\* the invariants of a key pair
ValidKey(k) ==
    LET phi == (k.private.p - 1) * (k.private.q - 1)
    IN  /\ k.public.n = k.private.p * k.private.q
        /\ 1 < k.public.e
        /\ k.public.e < phi
        /\ gcd(k.public.e, phi) = 1
        /\ 0 <= k.private.d /\ k.private.d < phi
        /\ MulMod(k.private.d, k.public.e, phi) = 1

\* C9: generate_keys on an empty store returns and persists only key pairs
\* with n = p*q, 1 < e < phi, gcd(e, phi) = 1 and d*e = 1 (mod phi); when e
\* fails the check it ends in an error with no d, no keys and an empty store.
C9_OnlyValidKeys ==
    /\ gk.pc = "returned" => ValidKey(gk.keys)
    /\ Exists => ValidKey(JsonLoad(store[1]))
    /\ gk.pc = "AssertionError" => (~Exists /\ gk.keys = NoKeys)
    /\ gk.pc # "ValueError"

\* the search returned primes whose phi shares a factor with e, and
\* generate_keys has ended in the assertion error with the store empty
C9_Witness ==
    /\ gk.pc = "AssertionError"
    /\ gk.line = 64
    /\ ~Exists
    /\ writes = 0

=============================================================================
